---- MODULE Spec2Model ----
(***************************************************************************)
(* The WebRTC signaling server of signaling-server.py: the in-memory       *)
(* registry `rooms` (room id -> peer id -> mailbox), guarded by the one    *)
(* lock `rooms_lock`, the request handlers that run on concurrent threads  *)
(* (offer, answer, ice-candidate, messages, status) and the background     *)
(* thread cleanup_old_messages.                                            *)
(*                                                                         *)
(* A Python dict keeps its keys in insertion order, so a room is modelled  *)
(* as the sequence of its peer entries in that order.                      *)
(***************************************************************************)
EXTENDS Integers, Sequences, FiniteSets, TLC

\* ---------------------------------------------------------------- bounds
\* The clock runs from 0 to MaxTime in ticks of TickStep.
MaxTime == 45
TickStep == 15
\* A submit is admitted only while the registry holds no more messages.
MaxPending == 2

\* Where the cleanup thread runs on time, the clock runs from 0 to
\* TimedHorizon in ticks of sleep_seconds.
TimedHorizon == 50
\* Where clients go quiet, they make their calls up to time LastCall.
LastCall == 0

\* Request-handling threads of the server.
Threads == {"h1", "h2"}
\* The room ids and peer ids that requests carry.
RoomIds == {"r1", "r2"}
NamedPeers == {"p1", "p2"}

\* ------------------------------------------------------ program constants
max_age == 30
sleep_seconds == 10

\* A request field that is not present (dict.get returns None).
Absent == "<absent>"
\* The default of data.get('peerId', 'unknown').
DefaultPeer == "unknown"
PeerIds == NamedPeers \cup {DefaultPeer}

\* A set of clients says which peer (Absent: the request names none) submits
\* what to which room, and which peer polls which room.
\* Three peers that meet in r1, one of them in r2 as well.
ManyClients == [offer |-> {<<"r1", "p1">>},
                answer |-> {<<"r1", "p2">>},
                ice |-> {<<"r1", "p1">>},
                poll |-> {<<"r1", "p1">>, <<"r1", "p2">>, <<"r1", Absent>>,
                          <<"r2", "p2">>}]
\* A caller p1 and a callee p2 that meet in r1, a peer that never polls, and
\* a room nobody polls.
FewClients == [offer |-> {<<"r1", "p1">>, <<"r2", "p1">>},
               answer |-> {<<"r1", "p2">>},
               ice |-> {<<"r1", Absent>>},
               poll |-> {<<"r1", "p1">>, <<"r1", "p2">>}]

\* A caller p1 and a callee p2 in r1; only the callee polls.
PairClients == [offer |-> {<<"r1", "p1">>},
                answer |-> {<<"r1", "p2">>},
                ice |-> {<<"r1", "p1">>},
                poll |-> {<<"r1", "p2">>}]

\* A caller p1 and two callees, p2 and one that names no peer id, in r1; the
\* callees poll.
TrioClients == [offer |-> {<<"r1", "p1">>},
                answer |-> {},
                ice |-> {},
                poll |-> {<<"r1", "p2">>, <<"r1", Absent>>}]

\* A caller p1 that submits offers only and a callee p2 that polls, in r1.
DuoClients == [offer |-> {<<"r1", "p1">>},
               answer |-> {},
               ice |-> {},
               poll |-> {<<"r1", "p2">>}]

\* A caller p1 that submits offers to r1 and to r2, and a callee p2 that
\* polls r1; nobody polls r2.
LoneClients == [offer |-> {<<"r1", "p1">>, <<"r2", "p1">>},
                answer |-> {},
                ice |-> {},
                poll |-> {<<"r1", "p2">>}]

\* The requests clients send, as <<payload, roomId, peerId>>: the valid ones,
\* and one for each way of failing validation.
Bodies(payload, from) ==
    {<<payload, f[1], f[2]>> : f \in from}
        \cup {<<Absent, "r1", "p1">>, <<"", "r1", "p1">>,
              <<payload, Absent, "p1">>, <<payload, "", "p1">>,
              <<Absent, Absent, Absent>>}
PollArgs(from) ==
    from \cup {<<Absent, "p1">>, <<"", "p1">>, <<Absent, Absent>>}

VARIABLES
    rooms,            \* room id -> sequence of peer entries (dict order)
    rooms_lock,       \* "free", a handler thread, or "cleanup"
    clock,            \* time.time()
    pc,               \* handler thread -> "idle" | "wait" | "forward" |
                      \*   "peers" | "messages" | "locked"
    req,              \* handler thread -> the request it is serving
    other_peer_ids,   \* handler thread -> local list of a submit handler
    fwd,              \* handler thread -> position in other_peer_ids
    messages,         \* handler thread -> local `messages` of poll_messages
    counts,           \* handler thread -> locals of get_status
    resp,             \* handler thread -> the last response it returned
    entry_rooms,      \* the registry as the lock holder found it (history)
    cpc,              \* cleanup thread: "sleep" | "wait" | "delete"
    sleep_left,       \* cleanup thread: what is left of time.sleep(10)
    now,              \* cleanup thread: local `now`
    rooms_to_delete,  \* cleanup thread: local `rooms_to_delete`
    evicted_polls     \* <<room id, peer id>> -> the lastPoll of the entry the
                      \*   cleanup thread last deleted for that pair (history)

vars == <<rooms, rooms_lock, clock, pc, req, other_peer_ids, fwd, messages,
          counts, resp, entry_rooms, cpc, sleep_left, now, rooms_to_delete,
          evicted_polls>>

handler_vars == <<pc, req, other_peer_ids, fwd, messages, counts, resp>>
cleanup_vars == <<cpc, sleep_left, now, rooms_to_delete, evicted_polls>>

\* ------------------------------------------------------------ dict helpers
\* Falsy as `x is None`.
Falsy_none(x) == x = Absent

\* `not x` of Python for a request field: None and '' are falsy.
Falsy(x) == x = Absent \/ x = ""

\* data.get('peerId', 'unknown')
PeerIdOf(x) == IF x = Absent THEN DefaultPeer ELSE x

\* list(room.keys())
Keys(room) == [i \in 1..Len(room) |-> room[i].peerId]

\* peer_id in room
HasPeer(room, peer_id) == \E i \in 1..Len(room) : room[i].peerId = peer_id

\* the position of peer_id's entry in room
IndexOf(room, peer_id) == CHOOSE i \in 1..Len(room) : room[i].peerId = peer_id

\* room[peer_id]
PeerData(room, peer_id) == room[IndexOf(room, peer_id)]

\* {'messages': [], 'lastPoll': time.time()}
NewPeer(peer_id, t) == [peerId |-> peer_id, messages |-> <<>>, lastPoll |-> t]

\* if room_id not in rooms: rooms[room_id] = {}
EnsureRoom(rs, room_id) ==
    IF room_id \in DOMAIN rs THEN rs ELSE rs @@ (room_id :> <<>>)

\* if peer_id not in room: room[peer_id] = {'messages': [], 'lastPoll': now}
EnsurePeer(room, peer_id, t) ==
    IF HasPeer(room, peer_id) THEN room ELSE Append(room, NewPeer(peer_id, t))

\* OtherPeerIds as every peer id but the sender's, known to the room or not.
OtherPeerIds_named(room, peer_id) ==
    LET ids == <<"p1", "p2", DefaultPeer>>
    IN SelectSeq(ids, LAMBDA pid : pid # peer_id)

\* OtherPeerIds without the test that leaves the sender out.
OtherPeerIds_all(room, peer_id) == Keys(room)

\* [pid for pid in rooms[room_id].keys() if pid != peer_id]
OtherPeerIds(room, peer_id) ==
    SelectSeq(Keys(room), LAMBDA pid : pid # peer_id)

RECURSIVE SumLen(_)
\* sum(len(x) for x in xs), xs a sequence of sequences
SumLen(xs) == IF xs = <<>> THEN 0 ELSE Len(Head(xs)) + SumLen(Tail(xs))

\* len(rooms)
RoomCount(rs) == Cardinality(DOMAIN rs)

RECURSIVE SumPeers(_, _)
\* sum(len(rs[r]) for r in S)
SumPeers(rs, S) ==
    IF S = {} THEN 0
    ELSE LET r == CHOOSE x \in S : TRUE
         IN Len(rs[r]) + SumPeers(rs, S \ {r})

\* sum(len(peers) for peers in rooms.values())
TotalPeers(rs) == SumPeers(rs, DOMAIN rs)

\* sum(len(peer_data['messages']) for peer_data in room.values())
RoomMessages(room) == SumLen([i \in 1..Len(room) |-> room[i].messages])

RECURSIVE SumMessages(_, _)
\* sum(len(peer_data['messages']) for r in S for peer_data in rs[r].values())
SumMessages(rs, S) ==
    IF S = {} THEN 0
    ELSE LET r == CHOOSE x \in S : TRUE
         IN RoomMessages(rs[r]) + SumMessages(rs, S \ {r})

\* sum(len(peer_data['messages']) for room ... for peer_data ...)
TotalMessages(rs) == SumMessages(rs, DOMAIN rs)

NoRequest == [op |-> "none"]
NoResponse == [code |-> 0]
NoCounts == [rooms |-> 0, peers |-> 0, messages |-> 0]

Init ==
    /\ rooms = <<>>
    /\ rooms_lock = "free"
    /\ clock = 0
    /\ pc = [t \in Threads |-> "idle"]
    /\ req = [t \in Threads |-> NoRequest]
    /\ other_peer_ids = [t \in Threads |-> <<>>]
    /\ fwd = [t \in Threads |-> 0]
    /\ messages = [t \in Threads |-> <<>>]
    /\ counts = [t \in Threads |-> NoCounts]
    /\ resp = [t \in Threads |-> NoResponse]
    /\ entry_rooms = <<>>
    /\ cpc = "sleep"
    /\ sleep_left = sleep_seconds
    /\ now = 0
    /\ rooms_to_delete = {}
    /\ evicted_polls = <<>>

\* Time passes, also for the sleeping cleanup thread.
Tick(horizon) ==
    /\ clock + TickStep <= horizon
    /\ clock' = clock + TickStep
    /\ sleep_left' = IF sleep_left > TickStep THEN sleep_left - TickStep ELSE 0
    /\ UNCHANGED <<rooms, rooms_lock, entry_rooms, handler_vars, cpc, now,
                   rooms_to_delete, evicted_polls>>

\* Time passes by the length of the cleanup thread's sleep, and the thread
\* runs on time: the clock does not go on while a pass is due or under way.
Pace(horizon) ==
    /\ cpc = "sleep"
    /\ sleep_left > 0
    /\ clock + sleep_seconds <= horizon
    /\ clock' = clock + sleep_seconds
    /\ sleep_left' = 0
    /\ UNCHANGED <<rooms, rooms_lock, entry_rooms, handler_vars, cpc, now,
                   rooms_to_delete, evicted_polls>>

\* ------------------------------------------------- submit: offer/answer/ice
SubmitOps == {"offer", "answer", "ice-candidate"}

\* NewMessage with the sender's default in place of the sender.
NewMessage_anonymous(r, t) ==
    IF r.op = "ice-candidate"
    THEN [type |-> "ice-candidate", candidate |-> r.payload,
          sdpMid |-> r.sdpMid, sdpMLineIndex |-> r.sdpMLineIndex,
          roomId |-> r.room_id, peerId |-> DefaultPeer, timestamp |-> t]
    ELSE [type |-> r.op, sdp |-> r.payload,
          roomId |-> r.room_id, peerId |-> DefaultPeer, timestamp |-> t]

\* The message a submit handler appends to a recipient's mailbox at time t.
NewMessage(r, t) ==
    IF r.op = "ice-candidate"
    THEN [type |-> "ice-candidate", candidate |-> r.payload,
          sdpMid |-> r.sdpMid, sdpMLineIndex |-> r.sdpMLineIndex,
          roomId |-> r.room_id, peerId |-> r.peer_id, timestamp |-> t]
    ELSE [type |-> r.op, sdp |-> r.payload,
          roomId |-> r.room_id, peerId |-> r.peer_id, timestamp |-> t]

\* Delivered with messages.insert(0, msg).
Delivered_front(msgs, msg) == <<msg>> \o msgs

\* messages.append(msg)
Delivered(msgs, msg) == Append(msgs, msg)

\* Bound of the model: a submit is admitted only while the registry, with
\* the messages the submit would add, holds at most MaxPending messages.
Admissible(room_id, peer_id) ==
    LET room == EnsureRoom(rooms, room_id)[room_id]
    IN TotalMessages(rooms) + Len(OtherPeerIds(room, peer_id)) <= MaxPending

\* Idle thread t takes a request of kind op whose body is missing or is not
\* an object: data.get raises, the handler answers 500.
SubmitBadBody(t, op) ==
    /\ pc[t] = "idle"
    /\ resp' = [resp EXCEPT ![t] = [code |-> 500]]
    /\ UNCHANGED <<rooms, rooms_lock, clock, entry_rooms, pc, req,
                   other_peer_ids, fwd, messages, counts, cleanup_vars>>

\* Idle thread t takes a request of kind op and validates it: 400 when the
\* payload or the room id is missing or empty, else it goes for the lock.
SubmitRequest(t, op, payload, roomId, peerId) ==
    /\ pc[t] = "idle"
    /\ IF Falsy(payload) \/ Falsy(roomId)
       THEN /\ resp' = [resp EXCEPT ![t] = [code |-> 400]]
            /\ UNCHANGED <<pc, req>>
       ELSE /\ Admissible(roomId, PeerIdOf(peerId))
            /\ req' = [req EXCEPT ![t] =
                         IF op = "ice-candidate"
                         THEN [op |-> op, payload |-> payload, sdpMid |-> "",
                               sdpMLineIndex |-> 0, room_id |-> roomId,
                               peer_id |-> PeerIdOf(peerId)]
                         ELSE [op |-> op, payload |-> payload,
                               room_id |-> roomId,
                               peer_id |-> PeerIdOf(peerId)]]
            /\ pc' = [pc EXCEPT ![t] = "wait"]
            /\ resp' = [resp EXCEPT ![t] = NoResponse]
    /\ UNCHANGED <<rooms, rooms_lock, clock, entry_rooms, other_peer_ids,
                   fwd, messages, counts, cleanup_vars>>

\* with rooms_lock: create the room if absent, list the other peers.
SubmitEnter(t, op) ==
    /\ pc[t] = "wait"
    /\ req[t].op = op
    /\ rooms_lock = "free"
    /\ rooms_lock' = t
    /\ entry_rooms' = rooms
    /\ rooms' = EnsureRoom(rooms, req[t].room_id)
    /\ other_peer_ids' = [other_peer_ids EXCEPT ![t] =
                            OtherPeerIds(rooms'[req[t].room_id], req[t].peer_id)]
    /\ fwd' = [fwd EXCEPT ![t] = 1]
    /\ pc' = [pc EXCEPT ![t] = "forward"]
    /\ UNCHANGED <<clock, req, messages, counts, resp, cleanup_vars>>

\* One turn of `for other_peer_id in other_peer_ids`.
SubmitForward(t, op) ==
    /\ pc[t] = "forward"
    /\ req[t].op = op
    /\ fwd[t] <= Len(other_peer_ids[t])
    /\ LET room_id == req[t].room_id
           other_peer_id == other_peer_ids[t][fwd[t]]
           room == EnsurePeer(rooms[room_id], other_peer_id, clock)
           i == IndexOf(room, other_peer_id)
       IN rooms' = [rooms EXCEPT ![room_id] =
                      [room EXCEPT ![i].messages =
                         Delivered(@, NewMessage(req[t], clock))]]
    /\ fwd' = [fwd EXCEPT ![t] = @ + 1]
    /\ UNCHANGED <<rooms_lock, clock, entry_rooms, pc, req, other_peer_ids,
                   messages, counts, resp, cleanup_vars>>

\* The loop is over: the lock is released and the handler answers.
SubmitExit(t, op) ==
    /\ pc[t] = "forward"
    /\ req[t].op = op
    /\ fwd[t] > Len(other_peer_ids[t])
    /\ rooms_lock' = "free"
    /\ entry_rooms' = <<>>
    /\ resp' = [resp EXCEPT ![t] =
                  [code |-> 200, op |-> op, success |-> TRUE,
                   forwardedTo |-> Len(other_peer_ids[t])]]
    /\ pc' = [pc EXCEPT ![t] = "idle"]
    /\ req' = [req EXCEPT ![t] = NoRequest]
    /\ other_peer_ids' = [other_peer_ids EXCEPT ![t] = <<>>]
    /\ fwd' = [fwd EXCEPT ![t] = 0]
    /\ UNCHANGED <<rooms, clock, messages, counts, cleanup_vars>>

handle_offer(t, from) ==
    \/ SubmitBadBody(t, "offer")
    \/ \E body \in Bodies("v=0", from) :
          SubmitRequest(t, "offer", body[1], body[2], body[3])
    \/ SubmitEnter(t, "offer")
    \/ SubmitForward(t, "offer")
    \/ SubmitExit(t, "offer")

handle_ice_candidate(t, from) ==
    \/ SubmitBadBody(t, "ice-candidate")
    \/ \E body \in Bodies("candidate:1", from) :
          SubmitRequest(t, "ice-candidate", body[1], body[2], body[3])
    \/ SubmitEnter(t, "ice-candidate")
    \/ SubmitForward(t, "ice-candidate")
    \/ SubmitExit(t, "ice-candidate")

handle_answer(t, from) ==
    \/ SubmitBadBody(t, "answer")
    \/ \E body \in Bodies("v=0", from) :
          SubmitRequest(t, "answer", body[1], body[2], body[3])
    \/ SubmitEnter(t, "answer")
    \/ SubmitForward(t, "answer")
    \/ SubmitExit(t, "answer")

\* --------------------------------------------------------- poll_messages
\* request.args.get('roomId') is None: 400, nothing else happens.
PollRequest(t, roomId, peerId) ==
    /\ pc[t] = "idle"
    /\ IF Falsy(roomId)
       THEN /\ resp' = [resp EXCEPT ![t] = [code |-> 400]]
            /\ UNCHANGED <<pc, req>>
       ELSE /\ req' = [req EXCEPT ![t] =
                         [op |-> "poll", room_id |-> roomId,
                          peer_id |-> PeerIdOf(peerId)]]
            /\ pc' = [pc EXCEPT ![t] = "wait"]
            /\ resp' = [resp EXCEPT ![t] = NoResponse]
    /\ UNCHANGED <<rooms, rooms_lock, clock, entry_rooms, other_peer_ids,
                   fwd, messages, counts, cleanup_vars>>

\* Drained without `peer_data['messages'] = []`.
Drained_kept(rs, room_id, peer_id, t) ==
    LET rs1 == EnsureRoom(rs, room_id)
        room == EnsurePeer(rs1[room_id], peer_id, t)
        i == IndexOf(room, peer_id)
    IN [rs1 EXCEPT ![room_id] = [room EXCEPT ![i].lastPoll = t]]

\* Drained without `peer_data['lastPoll'] = time.time()`.
Drained_unstamped(rs, room_id, peer_id, t) ==
    LET rs1 == EnsureRoom(rs, room_id)
        room == EnsurePeer(rs1[room_id], peer_id, t)
        i == IndexOf(room, peer_id)
    IN [rs1 EXCEPT ![room_id] = [room EXCEPT ![i].messages = <<>>]]

\* Drained with lastPoll set to 0.
Drained_epoch(rs, room_id, peer_id, t) ==
    LET rs1 == EnsureRoom(rs, room_id)
        room == EnsurePeer(rs1[room_id], peer_id, t)
        i == IndexOf(room, peer_id)
    IN [rs1 EXCEPT ![room_id] =
          [room EXCEPT ![i].lastPoll = 0, ![i].messages = <<>>]]

\* The registry after the locked block of poll_messages run at time t.
Drained(rs, room_id, peer_id, t) ==
    LET rs1 == EnsureRoom(rs, room_id)
        room == EnsurePeer(rs1[room_id], peer_id, t)
        i == IndexOf(room, peer_id)
    IN [rs1 EXCEPT ![room_id] =
          [room EXCEPT ![i].lastPoll = t, ![i].messages = <<>>]]

\* Copied as peer_data['messages'][:1].
Copied_first(rs, room_id, peer_id) ==
    IF room_id \in DOMAIN rs /\ HasPeer(rs[room_id], peer_id)
          /\ PeerData(rs[room_id], peer_id).messages # <<>>
    THEN <<Head(PeerData(rs[room_id], peer_id).messages)>>
    ELSE <<>>

\* peer_data['messages'].copy() of the locked block of poll_messages.
Copied(rs, room_id, peer_id) ==
    IF room_id \in DOMAIN rs /\ HasPeer(rs[room_id], peer_id)
    THEN PeerData(rs[room_id], peer_id).messages
    ELSE <<>>

\* PollEnter without `with rooms_lock`.
PollEnter_unlocked(t) ==
    /\ pc[t] = "wait"
    /\ req[t].op = "poll"
    /\ messages' = [messages EXCEPT ![t] =
                      Copied(rooms, req[t].room_id, req[t].peer_id)]
    /\ rooms' = Drained(rooms, req[t].room_id, req[t].peer_id, clock)
    /\ pc' = [pc EXCEPT ![t] = "locked"]
    /\ UNCHANGED <<rooms_lock, clock, entry_rooms, req, other_peer_ids, fwd,
                   counts, resp, cleanup_vars>>

\* with rooms_lock: create room and peer if absent, stamp lastPoll, take the
\* mailbox and leave it empty.
PollEnter(t) ==
    /\ pc[t] = "wait"
    /\ req[t].op = "poll"
    /\ rooms_lock = "free"
    /\ rooms_lock' = t
    /\ entry_rooms' = rooms
    /\ messages' = [messages EXCEPT ![t] =
                      Copied(rooms, req[t].room_id, req[t].peer_id)]
    /\ rooms' = Drained(rooms, req[t].room_id, req[t].peer_id, clock)
    /\ pc' = [pc EXCEPT ![t] = "locked"]
    /\ UNCHANGED <<clock, req, other_peer_ids, fwd, counts, resp, cleanup_vars>>

\* PollExit that leaves the `with rooms_lock` block without releasing.
PollExit_held(t) ==
    /\ pc[t] = "locked"
    /\ req[t].op = "poll"
    /\ resp' = [resp EXCEPT ![t] =
                  [code |-> 200, op |-> "poll", messages |-> messages[t]]]
    /\ pc' = [pc EXCEPT ![t] = "idle"]
    /\ req' = [req EXCEPT ![t] = NoRequest]
    /\ messages' = [messages EXCEPT ![t] = <<>>]
    /\ UNCHANGED <<rooms, rooms_lock, clock, entry_rooms, other_peer_ids, fwd,
                   counts, cleanup_vars>>

\* The lock is released and the handler answers with the messages.
PollExit(t) ==
    /\ pc[t] = "locked"
    /\ req[t].op = "poll"
    /\ rooms_lock' = "free"
    /\ entry_rooms' = <<>>
    /\ resp' = [resp EXCEPT ![t] =
                  [code |-> 200, op |-> "poll", messages |-> messages[t]]]
    /\ pc' = [pc EXCEPT ![t] = "idle"]
    /\ req' = [req EXCEPT ![t] = NoRequest]
    /\ messages' = [messages EXCEPT ![t] = <<>>]
    /\ UNCHANGED <<rooms, clock, other_peer_ids, fwd, counts, cleanup_vars>>

poll_messages(t, from) ==
    \/ \E args \in PollArgs(from) :
          PollRequest(t, args[1], args[2])
    \/ PollEnter(t)
    \/ PollExit(t)

\* ------------------------------------------------------------ get_status
StatusRequest(t) ==
    /\ pc[t] = "idle"
    /\ req' = [req EXCEPT ![t] = [op |-> "status"]]
    /\ pc' = [pc EXCEPT ![t] = "wait"]
    /\ resp' = [resp EXCEPT ![t] = NoResponse]
    /\ UNCHANGED <<rooms, rooms_lock, clock, entry_rooms, other_peer_ids,
                   fwd, messages, counts, cleanup_vars>>

\* StatusEnter without `with rooms_lock`.
StatusEnter_unlocked(t) ==
    /\ pc[t] = "wait"
    /\ req[t].op = "status"
    /\ entry_rooms' = rooms
    /\ counts' = [counts EXCEPT ![t].rooms = RoomCount(rooms)]
    /\ pc' = [pc EXCEPT ![t] = "peers"]
    /\ UNCHANGED <<rooms, rooms_lock, clock, req, other_peer_ids, fwd,
                   messages, resp, cleanup_vars>>

\* with rooms_lock: room_count = len(rooms)
StatusEnter(t) ==
    /\ pc[t] = "wait"
    /\ req[t].op = "status"
    /\ rooms_lock = "free"
    /\ rooms_lock' = t
    /\ entry_rooms' = rooms
    /\ counts' = [counts EXCEPT ![t].rooms = RoomCount(rooms)]
    /\ pc' = [pc EXCEPT ![t] = "peers"]
    /\ UNCHANGED <<rooms, clock, req, other_peer_ids, fwd, messages, resp,
                   cleanup_vars>>

\* total_peers = sum(len(peers) for peers in rooms.values())
StatusPeers(t) ==
    /\ pc[t] = "peers"
    /\ counts' = [counts EXCEPT ![t].peers = TotalPeers(rooms)]
    /\ pc' = [pc EXCEPT ![t] = "messages"]
    /\ UNCHANGED <<rooms, rooms_lock, clock, entry_rooms, req, other_peer_ids,
                   fwd, messages, resp, cleanup_vars>>

\* total_messages = sum(len(peer_data['messages']) ...)
StatusMessages(t) ==
    /\ pc[t] = "messages"
    /\ counts' = [counts EXCEPT ![t].messages = TotalMessages(rooms)]
    /\ pc' = [pc EXCEPT ![t] = "locked"]
    /\ UNCHANGED <<rooms, rooms_lock, clock, entry_rooms, req, other_peer_ids,
                   fwd, messages, resp, cleanup_vars>>

\* The lock is released and the handler answers with the counts.
StatusExit(t) ==
    /\ pc[t] = "locked"
    /\ req[t].op = "status"
    /\ rooms_lock' = "free"
    /\ entry_rooms' = <<>>
    /\ resp' = [resp EXCEPT ![t] =
                  [code |-> 200, op |-> "status", status |-> "running",
                   rooms |-> counts[t].rooms,
                   totalPeers |-> counts[t].peers,
                   totalPendingMessages |-> counts[t].messages,
                   timestamp |-> clock]]
    /\ pc' = [pc EXCEPT ![t] = "idle"]
    /\ req' = [req EXCEPT ![t] = NoRequest]
    /\ counts' = [counts EXCEPT ![t] = NoCounts]
    /\ UNCHANGED <<rooms, clock, other_peer_ids, fwd, messages, cleanup_vars>>

get_status(t) ==
    \/ StatusRequest(t)
    \/ StatusEnter(t)
    \/ StatusPeers(t)
    \/ StatusMessages(t)
    \/ StatusExit(t)

\* -------------------------------------------------- cleanup_old_messages
\* Fresh with `<= max_age`.
Fresh_inclusive(msgs, t) ==
    SelectSeq(msgs, LAMBDA msg : (t - msg.timestamp) <= max_age)

\* [msg for msg in msgs if (now - msg['timestamp']) < max_age]
Fresh(msgs, t) == SelectSeq(msgs, LAMBDA msg : (t - msg.timestamp) < max_age)

\* The peer's entry after the message filter of a pass whose `now` is t.
Filtered(peer_data, t) ==
    [peer_data EXCEPT !.messages = Fresh(@, t)]

\* Evictable with the operands of the subtraction swapped.
Evictable_swapped(peer_data, t) ==
    Len(peer_data.messages) = 0 /\ (peer_data.lastPoll - t) > max_age

\* Evictable without the test of the mailbox.
Evictable_idle(peer_data, t) == (t - peer_data.lastPoll) > max_age

\* Evictable with `>= max_age`.
Evictable_inclusive(peer_data, t) ==
    Len(peer_data.messages) = 0 /\ (t - peer_data.lastPoll) >= max_age

\* The test that puts a (filtered) peer on peers_to_delete.
Evictable(peer_data, t) ==
    Len(peer_data.messages) = 0 /\ (t - peer_data.lastPoll) > max_age

\* SweptRoom that deletes no peer.
SweptRoom_kept(room, t) == [i \in 1..Len(room) |-> Filtered(room[i], t)]

\* One room after the pass: messages filtered, then peers_to_delete removed.
SweptRoom(room, t) ==
    LET filtered == [i \in 1..Len(room) |-> Filtered(room[i], t)]
    IN SelectSeq(filtered, LAMBDA peer_data : ~Evictable(peer_data, t))

\* The registry after the scan of a pass whose `now` is t.
Scanned(rs, t) == [room_id \in DOMAIN rs |-> SweptRoom(rs[room_id], t)]

\* EmptyRooms that finds none.
EmptyRooms_none(rs) == {}

\* rooms_to_delete after the scan: the rooms left with no peer.
EmptyRooms(rs) == {room_id \in DOMAIN rs : Len(rs[room_id]) = 0}

\* Deleted that removes every room.
Deleted_all(rs, ids) == <<>>

\* for room_id in rooms_to_delete: del rooms[room_id]
Deleted(rs, ids) == [room_id \in DOMAIN rs \ ids |-> rs[room_id]]

\* The entries of rs that rs1, the registry after the scan, no longer has:
\* <<room id, peer id>> -> the lastPoll the deleted entry held.
Evicted(rs, rs1) ==
    LET gone == UNION {{<<room_id, rs[room_id][i].peerId>> :
                          i \in {j \in 1..Len(rs[room_id]) :
                                    ~HasPeer(rs1[room_id],
                                             rs[room_id][j].peerId)}}
                       : room_id \in DOMAIN rs}
    IN [e \in gone |-> PeerData(rs[e[1]], e[2]).lastPoll]

\* time.sleep(10) is over; now = time.time().
CleanupWake ==
    /\ cpc = "sleep"
    /\ sleep_left = 0
    /\ now' = clock
    /\ cpc' = "wait"
    /\ UNCHANGED <<rooms, rooms_lock, clock, entry_rooms, handler_vars,
                   sleep_left, rooms_to_delete, evicted_polls>>

\* with rooms_lock: the scan over all rooms and their peers.
CleanupScan ==
    /\ cpc = "wait"
    /\ rooms_lock = "free"
    /\ rooms_lock' = "cleanup"
    /\ entry_rooms' = rooms
    /\ rooms' = Scanned(rooms, now)
    /\ rooms_to_delete' = EmptyRooms(rooms')
    /\ evicted_polls' = Evicted(rooms, rooms') @@ evicted_polls
    /\ cpc' = "delete"
    /\ UNCHANGED <<clock, handler_vars, sleep_left, now>>

\* for room_id in rooms_to_delete: del rooms[room_id]; the lock is released
\* and the thread sleeps again.
CleanupDelete ==
    /\ cpc = "delete"
    /\ rooms' = Deleted(rooms, rooms_to_delete)
    /\ rooms_lock' = "free"
    /\ entry_rooms' = <<>>
    /\ rooms_to_delete' = {}
    /\ sleep_left' = sleep_seconds
    /\ now' = 0
    /\ cpc' = "sleep"
    /\ UNCHANGED <<clock, handler_vars, evicted_polls>>

cleanup_old_messages ==
    \/ CleanupWake
    \/ CleanupScan
    \/ CleanupDelete

\* --------------------------------------------------------- specification
\* The server with the handler threads T serving the given clients until the
\* clock reaches the horizon.
Server(T, clients, horizon) ==
    \/ Tick(horizon)
    \/ cleanup_old_messages
    \/ \E t \in T :
          \/ handle_offer(t, clients.offer)
          \/ handle_ice_candidate(t, clients.ice)
          \/ handle_answer(t, clients.answer)
          \/ poll_messages(t, clients.poll)
          \/ get_status(t)

\* One handler thread and the cleanup thread, few clients, over MaxTime.
Next == Server({"h1"}, FewClients, MaxTime)

Spec == Init /\ [][Next]_vars

\* One handler thread and the cleanup thread, many clients, over one
\* tick of the clock.
NextRouting == Server({"h1"}, ManyClients, TickStep)

SpecRouting == Init /\ [][NextRouting]_vars

\* Two handler threads and the cleanup thread, a pair of clients, over
\* one tick of the clock.
NextConcurrent == Server(Threads, PairClients, TickStep)

SpecConcurrent == Init /\ [][NextConcurrent]_vars

\* Two handler threads and the cleanup thread, a caller and two callees, over
\* one tick of the clock.
NextAtomic == Server(Threads, TrioClients, TickStep)

SpecAtomic == Init /\ [][NextAtomic]_vars

\* The server with a cleanup thread that runs on time, and clients that make
\* no submit and no poll call after time last_call.
TimedServer(T, clients, horizon, last_call) ==
    \/ Pace(horizon)
    \/ cleanup_old_messages
    \/ \E t \in T :
          \/ /\ pc[t] = "idle" => clock <= last_call
             /\ \/ handle_offer(t, clients.offer)
                \/ handle_ice_candidate(t, clients.ice)
                \/ handle_answer(t, clients.answer)
                \/ poll_messages(t, clients.poll)
          \/ get_status(t)

\* One handler thread and a cleanup thread that runs on time, a pair of
\* clients that call at any time.
NextTimed == TimedServer({"h1"}, PairClients, TimedHorizon, TimedHorizon)

SpecTimed == Init /\ [][NextTimed]_vars

\* Thread t acquires rooms_lock.
Acquires(t) ==
    \/ \E op \in SubmitOps : SubmitEnter(t, op)
    \/ PollEnter(t)
    \/ StatusEnter(t)

\* Thread t, holding rooms_lock, takes its next step.
Proceeds(t) ==
    \/ \E op \in SubmitOps : SubmitForward(t, op) \/ SubmitExit(t, op)
    \/ PollExit(t)
    \/ StatusPeers(t)
    \/ StatusMessages(t)
    \/ StatusExit(t)

\* Fair scheduling: a thread that holds the lock goes on running, and a
\* thread that waits for the lock gets it if the lock is free again and
\* again.
Fairness ==
    /\ \A t \in Threads : WF_vars(Proceeds(t)) /\ SF_vars(Acquires(t))
    /\ WF_vars(CleanupDelete)
    /\ SF_vars(CleanupScan)

\* Two handler threads and the cleanup thread under fair scheduling, a
\* caller and a callee, over one tick of the clock.
NextFair == Server(Threads, DuoClients, TickStep)

SpecFair == Init /\ [][NextFair]_vars /\ Fairness

\* Time goes on and the cleanup thread runs: it wakes when its sleep is over
\* and gets the lock if the lock is free again and again.
TimedFairness ==
    /\ Fairness
    /\ WF_vars(Pace(TimedHorizon))
    /\ WF_vars(CleanupWake)

\* One handler thread and a cleanup thread that runs on time, under fair
\* scheduling; the clients make no submit and no poll call after LastCall.
NextQuiet == TimedServer({"h1"}, LoneClients, TimedHorizon, LastCall)

SpecQuiet == Init /\ [][NextQuiet]_vars /\ TimedFairness

\* ------------------------------------------------------------- properties
\* The room as the lock holder found it: no entries if it was not there.
EntryRoom(room_id) ==
    IF room_id \in DOMAIN entry_rooms THEN entry_rooms[room_id] ELSE <<>>

\* Thread t leaves the locked block of a submit handler in this step.
SubmitLeaves(t) ==
    /\ pc[t] = "forward"
    /\ pc'[t] = "idle"

\* C1: fan-out routing. When a submit by S to room R leaves its locked
\* block, every peer of R other than S that had an entry when the block was
\* entered holds its former mailbox followed by exactly one new message that
\* carries S as sender, the kind and the room of the submit; S's own entry and
\* every other room are as they were, no entry was created, and the response
\* reports forwardedTo as the number of those other peers.
C1_FanOut ==
    [][\A t \in Threads : SubmitLeaves(t) =>
        LET R == req[t].room_id
            S == req[t].peer_id
            before == EntryRoom(R)
            after == rooms[R]
            others == {i \in 1..Len(before) : before[i].peerId # S}
        IN /\ DOMAIN rooms = DOMAIN entry_rooms \cup {R}
           /\ \A other \in DOMAIN entry_rooms \ {R} :
                 rooms[other] = entry_rooms[other]
           /\ Keys(after) = Keys(before)
           /\ \A i \in 1..Len(before) :
                 IF i \in others
                 THEN /\ Len(after[i].messages) = Len(before[i].messages) + 1
                      /\ SubSeq(after[i].messages, 1, Len(before[i].messages))
                            = before[i].messages
                      /\ after[i].messages[Len(after[i].messages)].peerId = S
                      /\ after[i].messages[Len(after[i].messages)].type
                            = req[t].op
                      /\ after[i].messages[Len(after[i].messages)].roomId = R
                      /\ after[i].lastPoll = before[i].lastPoll
                 ELSE after[i] = before[i]
           /\ resp'[t].code = 200
           /\ resp'[t].forwardedTo = Cardinality(others)
      ]_vars

\* A submit to r1 was forwarded to two peers, whose mailboxes hold it, while
\* r2 has a peer of its own.
C1_Witness ==
    /\ resp["h1"].code = 200
    /\ resp["h1"].op \in SubmitOps
    /\ resp["h1"].forwardedTo = 2
    /\ "r1" \in DOMAIN rooms
    /\ Len(rooms["r1"]) = 3
    /\ Cardinality({i \in 1..3 : Len(rooms["r1"][i].messages) = 1}) = 2
    /\ "r2" \in DOMAIN rooms
    /\ Len(rooms["r2"]) = 1

\* C5: the sender's own entry. When a submit by S to room R leaves its locked
\* block, S has an entry in R if and only if it had one when the block was
\* entered, and that entry's mailbox and lastPoll are what they were.
C5_SenderUntouched ==
    [][\A t \in Threads : SubmitLeaves(t) =>
        LET R == req[t].room_id
            S == req[t].peer_id
        IN /\ HasPeer(rooms[R], S) <=> HasPeer(EntryRoom(R), S)
           /\ HasPeer(EntryRoom(R), S) =>
                 /\ PeerData(rooms[R], S).messages
                       = PeerData(EntryRoom(R), S).messages
                 /\ PeerData(rooms[R], S).lastPoll
                       = PeerData(EntryRoom(R), S).lastPoll
      ]_vars

\* A submit that was forwarded has returned and its sender, who has an entry
\* in the room, has an empty mailbox there.
C5_Witness ==
    /\ resp["h1"].code = 200
    /\ resp["h1"].op = "offer"
    /\ resp["h1"].forwardedTo >= 1
    /\ "r1" \in DOMAIN rooms
    /\ HasPeer(rooms["r1"], "p1")
    /\ PeerData(rooms["r1"], "p1").messages = <<>>
    /\ \E i \in 1..Len(rooms["r1"]) : rooms["r1"][i].messages # <<>>

\* The mailbox of peer_id in room_id of the registry rs: empty if the peer
\* has no entry there.
Mailbox(rs, room_id, peer_id) ==
    IF room_id \in DOMAIN rs /\ HasPeer(rs[room_id], peer_id)
    THEN PeerData(rs[room_id], peer_id).messages
    ELSE <<>>

\* Thread t runs the locked block of poll_messages in this step.
PollDrains(t) ==
    /\ pc[t] = "wait"
    /\ pc'[t] = "locked"
    /\ req[t].op = "poll"

\* Thread t leaves the locked block of poll_messages in this step.
PollLeaves(t) ==
    /\ pc[t] = "locked"
    /\ pc'[t] = "idle"
    /\ req[t].op = "poll"

\* C2: drain is exactly-once. The step in which a poll by P in R takes the
\* mailbox takes all of it and leaves it empty; the poll answers with what it
\* took, and the mailbox is still empty when the poll lets go of the lock. A
\* mailbox gains a message only in a step of a submit handler's loop, one
\* message at a time, so what one poll took no other poll, concurrent or
\* later, finds again, and a second poll with no submit in between takes the
\* empty sequence.
C2_DrainOnce ==
    [][/\ \A t \in Threads : PollDrains(t) =>
            /\ messages'[t] = Mailbox(rooms, req[t].room_id, req[t].peer_id)
            /\ HasPeer(rooms'[req[t].room_id], req[t].peer_id)
            /\ Mailbox(rooms', req[t].room_id, req[t].peer_id) = <<>>
       /\ \A t \in Threads : PollLeaves(t) =>
            /\ resp'[t].code = 200
            /\ resp'[t].messages = messages[t]
            /\ Mailbox(rooms', req[t].room_id, req[t].peer_id) = <<>>
       /\ \A R \in DOMAIN rooms' : \A i \in 1..Len(rooms'[R]) :
            LET P == rooms'[R][i].peerId
                old == Mailbox(rooms, R, P)
                new == rooms'[R][i].messages
            IN Len(new) > Len(old) =>
                  /\ Len(new) = Len(old) + 1
                  /\ \E t \in Threads :
                        /\ rooms_lock = t
                        /\ pc[t] = "forward"
                        /\ req[t].room_id = R
                        /\ req[t].peer_id # P
      ]_vars

\* One poll has answered with a message while another poll of the same
\* mailbox holds the lock, having taken nothing.
C2_Witness ==
    /\ resp["h1"].code = 200
    /\ resp["h1"].op = "poll"
    /\ resp["h1"].messages # <<>>
    /\ pc["h2"] = "locked"
    /\ req["h2"].op = "poll"
    /\ messages["h2"] = <<>>
    /\ Mailbox(rooms, "r1", "p2") = <<>>

RECURSIVE OrderKept(_, _)
\* The sequence a is what is left of the sequence b when some of its elements
\* are taken out: the elements of a are elements of b, in b's order.
OrderKept(a, b) ==
    IF a = <<>> THEN TRUE
    ELSE IF b = <<>> THEN FALSE
    ELSE IF Head(a) = Head(b) THEN OrderKept(Tail(a), Tail(b))
    ELSE OrderKept(a, Tail(b))

\* C3: FIFO preservation. In every step every mailbox either stays as it is,
\* or gains one message at its tail (a submit, of whatever kind and sender),
\* or loses messages while those that stay keep their order (a poll, which
\* takes them all, or a pass of the cleanup thread); and a poll answers with
\* the mailbox as it stood, first appended first.
C3_Fifo ==
    [][/\ \A R \in DOMAIN rooms : \A i \in 1..Len(rooms[R]) :
            LET old == rooms[R][i].messages
                new == Mailbox(rooms', R, rooms[R][i].peerId)
            IN \/ new = old
               \/ /\ Len(new) = Len(old) + 1
                  /\ SubSeq(new, 1, Len(old)) = old
               \/ /\ Len(new) < Len(old)
                  /\ OrderKept(new, old)
       /\ \A t \in Threads : PollDrains(t) =>
            messages'[t] = Mailbox(rooms, req[t].room_id, req[t].peer_id)
       /\ \A t \in Threads : PollLeaves(t) =>
            resp'[t].messages = messages[t]
      ]_vars

\* A poll has answered with an offer followed by an ICE candidate of another
\* sender, appended later.
C3_Witness ==
    /\ resp["h1"].code = 200
    /\ resp["h1"].op = "poll"
    /\ Len(resp["h1"].messages) = 2
    /\ resp["h1"].messages[1].type = "offer"
    /\ resp["h1"].messages[1].peerId = "p1"
    /\ resp["h1"].messages[2].type = "ice-candidate"
    /\ resp["h1"].messages[2].peerId = DefaultPeer
    /\ resp["h1"].messages[1].timestamp < resp["h1"].messages[2].timestamp

\* C4: poll on first contact. A poll that carries a room id gets the lock and
\* answers 200. The step in which it takes the mailbox leaves the entry
\* (R, P) in the registry, created with its room if it was not there, with
\* an empty mailbox and lastPoll set to the time of that step; if there was
\* no such entry the poll takes the empty sequence. The entry is still there,
\* and empty, when the poll lets go of the lock.
C4_PollFirstContact ==
    [][\A t \in Threads :
          /\ PollDrains(t) =>
                LET R == req[t].room_id
                    P == req[t].peer_id
                IN /\ R \in DOMAIN rooms'
                   /\ HasPeer(rooms'[R], P)
                   /\ PeerData(rooms'[R], P).messages = <<>>
                   /\ PeerData(rooms'[R], P).lastPoll = clock
                   /\ (R \notin DOMAIN rooms \/ ~HasPeer(rooms[R], P))
                         => messages'[t] = <<>>
          /\ PollLeaves(t) =>
                LET R == req[t].room_id
                    P == req[t].peer_id
                IN /\ resp'[t].code = 200
                   /\ R \in DOMAIN rooms'
                   /\ HasPeer(rooms'[R], P)
                   /\ PeerData(rooms'[R], P).messages = <<>>
                   /\ PeerData(rooms'[R], P).lastPoll <= clock
      ]_vars

\* A poll at a time after 0 has found no room and holds the lock: room and
\* entry exist, the mailbox is empty, lastPoll is the time of the poll.
C4_Witness ==
    /\ pc["h1"] = "locked"
    /\ req["h1"].op = "poll"
    /\ req["h1"].room_id \notin DOMAIN entry_rooms
    /\ clock > 0
    /\ messages["h1"] = <<>>
    /\ PeerData(rooms[req["h1"].room_id], req["h1"].peer_id).lastPoll = clock

\* C6, as claimed: whenever no operation is inside its locked block, every
\* room of the registry has at least one peer entry.
C6_RoomsNeverEmpty ==
    rooms_lock = "free" => \A R \in DOMAIN rooms : Len(rooms[R]) >= 1

\* The cleanup thread ends a pass in this step.
CleanupEnds ==
    /\ cpc = "delete"
    /\ cpc' = "sleep"

\* C6, amended: when a pass of the cleanup thread ends, every room of the
\* registry has at least one peer entry, and when a poll lets go of the lock
\* the room it polled has one. (A submit to a room that is not in the registry
\* leaves the room there with no entry.)
C6_RoomsAfterSweepOrPoll ==
    [][/\ CleanupEnds => \A R \in DOMAIN rooms' : Len(rooms'[R]) >= 1
       /\ \A t \in Threads : PollLeaves(t) =>
             /\ req[t].room_id \in DOMAIN rooms'
             /\ Len(rooms'[req[t].room_id]) >= 1
      ]_vars

\* A pass has just ended and left r1, with a peer, as the only room.
C6_Witness ==
    /\ cpc = "sleep"
    /\ sleep_left = sleep_seconds
    /\ clock > 0
    /\ rooms_lock = "free"
    /\ DOMAIN rooms = {"r1"}
    /\ Len(rooms["r1"]) >= 1

\* C7: validation failure. A step in which a handler answers 400 leaves the
\* registry and the lock as they are and the thread idle; and a handler goes
\* for the lock only with a request whose room id, and for a submit whose sdp
\* or candidate, is neither missing nor empty.
C7_ValidationFrame ==
    [][\A t \in Threads :
          /\ (resp'[t] # resp[t] /\ resp'[t].code = 400) =>
                /\ rooms' = rooms
                /\ rooms_lock' = rooms_lock
                /\ pc[t] = "idle"
                /\ pc'[t] = "idle"
          /\ (pc[t] = "idle" /\ pc'[t] = "wait" /\ req'[t].op # "status") =>
                /\ req'[t].room_id \notin {Absent, ""}
                /\ req'[t].op \in SubmitOps =>
                      req'[t].payload \notin {Absent, ""}
      ]_vars

\* A handler has answered 400 while a message is pending in the registry.
C7_Witness ==
    /\ resp["h1"].code = 400
    /\ pc["h1"] = "idle"
    /\ \E R \in DOMAIN rooms : \E i \in 1..Len(rooms[R]) :
          rooms[R][i].messages # <<>>

\* The cleanup thread runs the scan of a pass in this step.
CleanupScans ==
    /\ cpc = "wait"
    /\ cpc' = "delete"

\* C8, as claimed: the scan of a pass leaves in every mailbox exactly the
\* messages whose age, now - timestamp, does not exceed max_age.
C8_ExpiryWhenExceeds ==
    [][CleanupScans =>
        \A R \in DOMAIN rooms : \A i \in 1..Len(rooms[R]) :
           Mailbox(rooms', R, rooms[R][i].peerId)
              = SelectSeq(rooms[R][i].messages,
                          LAMBDA m : ~((now - m.timestamp) > max_age))
      ]_vars

\* C8, amended: the scan of a pass leaves in every mailbox exactly the
\* messages whose age, now - timestamp with the `now` the pass read before it
\* took the lock, is less than max_age; those of age max_age or more are gone.
C8_ExpiryFromMaxAge ==
    [][CleanupScans =>
        \A R \in DOMAIN rooms : \A i \in 1..Len(rooms[R]) :
           Mailbox(rooms', R, rooms[R][i].peerId)
              = SelectSeq(rooms[R][i].messages,
                          LAMBDA m : ~((now - m.timestamp) >= max_age))
      ]_vars

\* The scan of a pass has dropped a message of age max_age from a mailbox and
\* kept a younger one.
C8_Witness ==
    /\ cpc = "delete"
    /\ \E R \in DOMAIN entry_rooms : \E i \in 1..Len(entry_rooms[R]) :
          LET old == entry_rooms[R][i].messages
              new == Mailbox(rooms, R, entry_rooms[R][i].peerId)
          IN /\ \E k \in 1..Len(old) : now - old[k].timestamp = max_age
             /\ new # <<>>
             /\ Len(new) < Len(old)

\* The number of peer entries of the registry rs.
PeerCount(rs) ==
    Cardinality(UNION {{<<R, i>> : i \in 1..Len(rs[R])} : R \in DOMAIN rs})

\* The entries the scan of a pass finds with an empty mailbox and a last poll
\* older than max_age.
IdleEntries ==
    UNION {{<<R, i>> : i \in {j \in 1..Len(rooms[R]) :
                                 /\ rooms[R][j].messages = <<>>
                                 /\ (now - rooms[R][j].lastPoll) > max_age}}
           : R \in DOMAIN rooms}

\* Thread t leaves the locked block of get_status in this step.
StatusLeaves(t) ==
    /\ pc[t] = "locked"
    /\ pc'[t] = "idle"
    /\ req[t].op = "status"

\* C9: idle eviction. The scan of a pass removes from its room every peer
\* whose mailbox is empty and whose last poll is older than max_age, so the
\* registry has at least that many entries fewer; and a status call reports
\* as totalPeers the number of entries the registry then has.
C9_IdleEviction ==
    [][/\ CleanupScans =>
            /\ \A e \in IdleEntries :
                  ~HasPeer(rooms'[e[1]], rooms[e[1]][e[2]].peerId)
            /\ PeerCount(rooms') <= PeerCount(rooms) - Cardinality(IdleEntries)
       /\ \A t \in Threads : StatusLeaves(t) =>
            /\ resp'[t].code = 200
            /\ resp'[t].totalPeers = PeerCount(rooms)
      ]_vars

\* The scan of a pass has removed a peer that had an empty mailbox and a last
\* poll older than max_age, and kept another peer of the room.
C9_Witness ==
    /\ cpc = "delete"
    /\ \E R \in DOMAIN entry_rooms : \E i \in 1..Len(entry_rooms[R]) :
          /\ entry_rooms[R][i].messages = <<>>
          /\ (now - entry_rooms[R][i].lastPoll) > max_age
          /\ ~HasPeer(rooms[R], entry_rooms[R][i].peerId)
          /\ Len(rooms[R]) = 1

\* C10, as claimed: the scan of a pass removes no peer whose mailbox held a
\* message when the pass began.
C10_PendingAtStartKept ==
    [][CleanupScans =>
        \A R \in DOMAIN rooms : \A i \in 1..Len(rooms[R]) :
           rooms[R][i].messages # <<>> => HasPeer(rooms'[R], rooms[R][i].peerId)
      ]_vars

\* C10, amended: the scan of a pass removes no peer whose mailbox holds a
\* message younger than max_age, one the pass itself does not drop, however
\* long ago the peer last polled; and that message is still in the mailbox.
C10_PendingAfterFilterKept ==
    [][CleanupScans =>
        \A R \in DOMAIN rooms : \A i \in 1..Len(rooms[R]) :
           \A k \in 1..Len(rooms[R][i].messages) :
              (now - rooms[R][i].messages[k].timestamp) < max_age =>
                 /\ HasPeer(rooms'[R], rooms[R][i].peerId)
                 /\ \E j \in 1..Len(Mailbox(rooms', R, rooms[R][i].peerId)) :
                       Mailbox(rooms', R, rooms[R][i].peerId)[j]
                          = rooms[R][i].messages[k]
      ]_vars

\* The scan of a pass has kept a peer whose last poll is older than max_age
\* because its mailbox holds a message younger than max_age.
C10_Witness ==
    /\ cpc = "delete"
    /\ \E R \in DOMAIN entry_rooms : \E i \in 1..Len(entry_rooms[R]) :
          /\ (now - entry_rooms[R][i].lastPoll) > max_age
          /\ \E k \in 1..Len(entry_rooms[R][i].messages) :
                (now - entry_rooms[R][i].messages[k].timestamp) < max_age
          /\ HasPeer(rooms[R], entry_rooms[R][i].peerId)
          /\ Mailbox(rooms, R, entry_rooms[R][i].peerId) # <<>>

\* A peer entry that a pass whose `now` is t keeps: after the filter it holds
\* a message, or its last poll is not older than max_age.
Kept(peer_data, t) ==
    \/ \E k \in 1..Len(peer_data.messages) :
          (t - peer_data.messages[k].timestamp) < max_age
    \/ (t - peer_data.lastPoll) <= max_age

\* C11: room removal. When a pass of the cleanup thread ends, the registry
\* holds exactly the rooms the pass found with a peer entry that it keeps, each
\* with the entries its scan left; a room whose peers were all evicted in the
\* pass, or that had none, is gone, and a room left with a peer is not
\* removed. A status call reports as rooms the number of rooms the registry
\* then has.
C11_RoomRemoval ==
    [][/\ CleanupEnds =>
            /\ DOMAIN rooms'
                  = {R \in DOMAIN entry_rooms :
                        \E i \in 1..Len(entry_rooms[R]) :
                           Kept(entry_rooms[R][i], now)}
            /\ \A R \in DOMAIN rooms' :
                  /\ rooms'[R] = rooms[R]
                  /\ Len(rooms'[R]) >= 1
            /\ \A R \in DOMAIN rooms : Len(rooms[R]) >= 1 => R \in DOMAIN rooms'
       /\ \A t \in Threads : StatusLeaves(t) =>
            resp'[t].rooms = Cardinality(DOMAIN rooms)
      ]_vars

\* The scan of a pass has left r1, whose only peer it evicted, and r2, which
\* had no peer, with no entry: both are about to be removed.
C11_Witness ==
    /\ cpc = "delete"
    /\ rooms_to_delete = {"r1", "r2"}
    /\ Len(entry_rooms["r1"]) >= 1
    /\ Len(entry_rooms["r2"]) = 0
    /\ Len(rooms["r1"]) = 0

\* C12: lastPoll never decreases. In every step, the lastPoll of every entry
\* (R, P) of the registry is at least the lastPoll that (R, P) had before the
\* step, if it had an entry, and at least the lastPoll of the entry the
\* cleanup thread last deleted for (R, P), if it deleted one; and an entry
\* that is new, or whose lastPoll is not what it was, is the entry of a poll
\* by P in R that runs its locked block in this step and sets it to the
\* current time. The clock itself never runs backwards.
C12_LastPollMonotonic ==
    [][/\ clock' >= clock
       /\ \A R \in DOMAIN rooms' : \A i \in 1..Len(rooms'[R]) :
            LET P == rooms'[R][i].peerId
                new == rooms'[R][i].lastPoll
                had == R \in DOMAIN rooms /\ HasPeer(rooms[R], P)
            IN /\ had => new >= PeerData(rooms[R], P).lastPoll
               /\ <<R, P>> \in DOMAIN evicted_polls =>
                     new >= evicted_polls[<<R, P>>]
               /\ (~had \/ new # PeerData(rooms[R], P).lastPoll) =>
                     /\ new = clock
                     /\ \E t \in Threads :
                           /\ PollDrains(t)
                           /\ req[t].room_id = R
                           /\ req[t].peer_id = P
      ]_vars

\* The cleanup thread deleted p2's entry in r1, and p2 has polled r1 since:
\* its new entry holds a later lastPoll than the deleted one. p1, which also
\* polled, has a submit of p2 pending.
C12_Witness ==
    /\ <<"r1", "p2">> \in DOMAIN evicted_polls
    /\ "r1" \in DOMAIN rooms
    /\ HasPeer(rooms["r1"], "p2")
    /\ PeerData(rooms["r1"], "p2").lastPoll > evicted_polls[<<"r1", "p2">>]
    /\ Mailbox(rooms, "r1", "p1") # <<>>

\* The number of messages in the mailboxes of the registry rs.
PendingCount(rs) ==
    Cardinality(UNION {{<<R, i, k>> : k \in 1..Len(rs[R][i].messages)}
                       : <<R, i>> \in UNION {{<<Q, j>> : j \in 1..Len(rs[Q])}
                                            : Q \in DOMAIN rs}})

\* Thread t is inside the locked block of get_status.
InStatus(t) ==
    /\ req[t].op = "status"
    /\ pc[t] \in {"peers", "messages", "locked"}

\* C13: status is a pure, consistent read. No step of a status call changes
\* the registry, and while a status call is inside its locked block no step
\* of any other handler or of the cleanup thread changes it either; so the
\* three counts, read one after the other, are those of one registry: the
\* status call answers with the number of rooms, of peer entries and of
\* pending messages of the registry as it found it, which is the registry as
\* it leaves it.
C13_StatusPureRead ==
    [][\A t \in Threads :
          /\ (req[t].op = "status" /\ pc'[t] # pc[t]) => rooms' = rooms
          /\ InStatus(t) => rooms' = rooms
          /\ StatusLeaves(t) =>
                /\ rooms = entry_rooms
                /\ resp'[t].code = 200
                /\ resp'[t].rooms = Cardinality(DOMAIN rooms)
                /\ resp'[t].totalPeers = PeerCount(rooms)
                /\ resp'[t].totalPendingMessages = PendingCount(rooms)
      ]_vars

\* A status call has counted one room, one peer and one pending message and
\* still holds the lock, while a submit on the other thread and the cleanup
\* thread wait for it.
C13_Witness ==
    /\ pc["h1"] = "locked"
    /\ req["h1"].op = "status"
    /\ counts["h1"] = [rooms |-> 1, peers |-> 1, messages |-> 1]
    /\ pc["h2"] = "wait"
    /\ req["h2"].op \in SubmitOps
    /\ cpc = "wait"

\* The handler threads that are inside a locked block.
Inside == {t \in Threads : pc[t] \in {"forward", "peers", "messages", "locked"}}

\* Thread t reads the registry in this step: a poll takes its mailbox, or a
\* status call reads one of its counts.
Observes(t) ==
    \/ PollDrains(t)
    \/ /\ req[t].op = "status"
       /\ pc[t] \in {"wait", "peers", "messages"}
       /\ pc'[t] # pc[t]

\* C14: atomicity. At most one of the handler threads and the cleanup thread
\* is inside its locked block, and it is the holder of the lock; a poll or a
\* status call reads the registry only in a step in which no other handler
\* is inside a submit's loop or any other locked block and the cleanup thread
\* is not between its scan and its removal of rooms; and while a submit is
\* inside its loop, having appended to some of its recipients only, or the
\* cleanup thread is inside its pass, the registry changes only by their own
\* steps.
C14_Atomic ==
    [][/\ Cardinality(Inside) + (IF cpc = "delete" THEN 1 ELSE 0) <= 1
       /\ \A t \in Inside : rooms_lock = t
       /\ cpc = "delete" => rooms_lock = "cleanup"
       /\ \A t \in Threads : Observes(t) =>
             /\ \A u \in Threads \ {t} : u \notin Inside
             /\ cpc # "delete"
             /\ \A u \in Threads \ {t} : pc'[u] = pc[u]
       /\ \A t \in Threads :
             (pc[t] = "forward" /\ rooms' # rooms) =>
                /\ pc'[t] = "forward"
                /\ fwd'[t] = fwd[t] + 1
       /\ (cpc = "delete" /\ rooms' # rooms) => cpc' = "sleep"
      ]_vars

\* A submit with two recipients has appended to the first of them only and
\* holds the lock, while a poll of the second recipient on the other thread
\* and the cleanup thread wait for it.
C14_Witness ==
    /\ pc["h1"] = "forward"
    /\ Len(other_peer_ids["h1"]) = 2
    /\ fwd["h1"] = 2
    /\ Mailbox(rooms, "r1", other_peer_ids["h1"][1]) # <<>>
    /\ Mailbox(rooms, "r1", other_peer_ids["h1"][2]) = <<>>
    /\ pc["h2"] = "wait"
    /\ req["h2"].op = "poll"
    /\ req["h2"].peer_id = other_peer_ids["h1"][2]
    /\ cpc = "wait"

\* The <<room id, peer id>> pairs that have an entry in the registry rs.
Pairs(rs) ==
    UNION {{<<R, rs[R][i].peerId>> : i \in 1..Len(rs[R])} : R \in DOMAIN rs}

\* C15: a submit that races with the recipient's poll. In every step and for
\* every mailbox: if a poll takes the mailbox in this step, its result is all
\* of the mailbox, what was appended before included, and the mailbox is left
\* empty; if the cleanup thread scans, the mailbox only loses messages; in
\* any other step the mailbox stays as it is or gains one message at its
\* tail, and then no poll result, taken or already returned, changes: the
\* message stays in the mailbox for the next poll. A result that was taken is
\* returned as it was taken.
C15_NoLossNoDuplicate ==
    [][/\ \A e \in Pairs(rooms) \cup Pairs(rooms') :
            LET old == Mailbox(rooms, e[1], e[2])
                new == Mailbox(rooms', e[1], e[2])
                polls == {t \in Threads : /\ PollDrains(t)
                                          /\ req[t].room_id = e[1]
                                          /\ req[t].peer_id = e[2]}
            IN IF polls # {}
               THEN /\ new = <<>>
                    /\ \A t \in polls : messages'[t] = old
               ELSE IF CleanupScans
               THEN OrderKept(new, old)
               ELSE \/ new = old
                    \/ /\ Len(new) = Len(old) + 1
                       /\ SubSeq(new, 1, Len(old)) = old
                       /\ messages' = messages
                       /\ resp' = resp
       /\ \A t \in Threads :
            /\ (messages'[t] # messages[t]) => (PollDrains(t) \/ PollLeaves(t))
            /\ PollLeaves(t) => resp'[t].messages = messages[t]
            /\ (pc[t] = "locked" /\ req[t].op = "poll") =>
                  Mailbox(rooms, req[t].room_id, req[t].peer_id) = <<>>
      ]_vars

\* A poll by p2 has returned an offer; an ICE candidate that a submit on the
\* other thread appended after that poll is in p2's mailbox, and the submit
\* still holds the lock.
C15_Witness ==
    /\ resp["h2"].code = 200
    /\ resp["h2"].op = "poll"
    /\ Len(resp["h2"].messages) = 1
    /\ resp["h2"].messages[1].type = "offer"
    /\ pc["h1"] = "forward"
    /\ req["h1"].op = "ice-candidate"
    /\ fwd["h1"] = 2
    /\ Len(Mailbox(rooms, "r1", "p2")) = 1
    /\ Mailbox(rooms, "r1", "p2")[1].type = "ice-candidate"

\* C16: active consumers are never pruned. The scan of a pass keeps, as it
\* is but for expired messages, every entry whose last poll is at most
\* max_age before the time of the scan, whether or not its mailbox is empty
\* and whether the pass read `now` at the time of the scan or earlier; and
\* the removal of rooms that ends the pass keeps that entry and its room.
C16_ActiveKept ==
    [][/\ CleanupScans =>
            \A R \in DOMAIN rooms : \A i \in 1..Len(rooms[R]) :
               (clock - rooms[R][i].lastPoll) <= max_age =>
                  /\ R \in DOMAIN rooms'
                  /\ HasPeer(rooms'[R], rooms[R][i].peerId)
                  /\ PeerData(rooms'[R], rooms[R][i].peerId).lastPoll
                        = rooms[R][i].lastPoll
       /\ CleanupEnds =>
            \A R \in DOMAIN rooms : \A i \in 1..Len(rooms[R]) :
               /\ R \in DOMAIN rooms'
               /\ rooms'[R] = rooms[R]
      ]_vars

\* The scan of a pass has kept two peers with empty mailboxes: one that
\* polled after the pass read `now`, and one whose last poll was exactly
\* max_age before the scan.
C16_Witness ==
    /\ cpc = "delete"
    /\ \E R \in DOMAIN entry_rooms : \E i, j \in 1..Len(entry_rooms[R]) :
          /\ entry_rooms[R][i].messages = <<>>
          /\ entry_rooms[R][i].lastPoll > now
          /\ HasPeer(rooms[R], entry_rooms[R][i].peerId)
          /\ entry_rooms[R][j].messages = <<>>
          /\ clock - entry_rooms[R][j].lastPoll = max_age
          /\ HasPeer(rooms[R], entry_rooms[R][j].peerId)

Quiet ==
    /\ clock > LastCall
    /\ \A t \in Threads : pc[t] = "idle" \/ req[t].op = "status"
    /\ clock + max_age + sleep_seconds <= TimedHorizon

\* C18: the cleanup thread bounds memory. Once the clients have gone quiet,
\* with time going on and the cleanup thread running on time, the registry
\* comes to hold no room, with or without peers, hence no peer entry and no
\* message, and stays that way, whatever status calls are made.
C18_EventuallyEmpty == Quiet ~> [](rooms = <<>>)

\* The clients have gone quiet and left behind p2's entry in r1, with two
\* messages pending, and r2, which a submit created and which has no peer.
C18_Witness ==
    /\ Quiet
    /\ DOMAIN rooms = {"r1", "r2"}
    /\ Len(rooms["r2"]) = 0
    /\ Len(Mailbox(rooms, "r1", "p2")) = 2

\* C19: a submit while the recipient has no entry. A step creates an entry
\* (R, P) only if it is the locked block of a poll by P in R, which finds
\* nothing and leaves the new mailbox empty; a mailbox gains a message only
\* if its entry was there before the step; and a submit to R leaves R with
\* the peers it found, so that a peer without entry is sent nothing and finds
\* nothing when it polls.
C19_AbsentRecipient ==
    [][/\ \A e \in Pairs(rooms') \ Pairs(rooms) :
            /\ \E t \in Threads : /\ PollDrains(t)
                                  /\ req[t].room_id = e[1]
                                  /\ req[t].peer_id = e[2]
                                  /\ messages'[t] = <<>>
            /\ Mailbox(rooms', e[1], e[2]) = <<>>
       /\ \A e \in Pairs(rooms') :
            Len(Mailbox(rooms', e[1], e[2])) > Len(Mailbox(rooms, e[1], e[2]))
               => e \in Pairs(rooms)
       /\ \A t \in Threads : SubmitLeaves(t) =>
            /\ Keys(rooms[req[t].room_id]) = Keys(EntryRoom(req[t].room_id))
            /\ resp'[t].forwardedTo
                  = Cardinality({i \in 1..Len(EntryRoom(req[t].room_id)) :
                                   EntryRoom(req[t].room_id)[i].peerId
                                      # req[t].peer_id})
      ]_vars

\* The cleanup thread deleted p2's entry in r1; an ICE candidate submitted
\* to r1 since then is pending for p1, and p2, polling r1 again, finds no
\* entry and takes nothing.
C19_Witness ==
    /\ pc["h1"] = "locked"
    /\ req["h1"].op = "poll"
    /\ req["h1"].room_id = "r1"
    /\ req["h1"].peer_id = "p2"
    /\ <<"r1", "p2">> \in DOMAIN evicted_polls
    /\ "r1" \in DOMAIN entry_rooms
    /\ ~HasPeer(entry_rooms["r1"], "p2")
    /\ \E k \in 1..Len(Mailbox(entry_rooms, "r1", "p1")) :
          /\ Mailbox(entry_rooms, "r1", "p1")[k].peerId = DefaultPeer
          /\ Mailbox(entry_rooms, "r1", "p1")[k].timestamp
                > evicted_polls[<<"r1", "p2">>] + max_age
    /\ messages["h1"] = <<>>
    /\ Mailbox(rooms, "r1", "p2") = <<>>

====
